---- MODULE Spec2Model ----
(***************************************************************************)
(* Server-side SST aggregation and caching layer of scuba-suit:            *)
(*   - SimpleCache            (lib/cache: get / set / sweep)               *)
(*   - fetchSSTDayAvg, fetchSSTWithNudge   (lib/sst)                       *)
(*   - GET /api/sst/point     (routes/api/sst/point.ts)                    *)
(*   - GET /api/sst/grid, fetchSSTGrid     (routes/api/sst/grid, lib/sst)  *)
(*   - date generators, suitForTemp, quantile                              *)
(*   - MapPage point lookups  (routes/map.tsx)                             *)
(* Times are epoch milliseconds, as Date.now() gives them.                 *)
(***************************************************************************)
EXTENDS Integers, Sequences, FiniteSets, TLC

VARIABLES
    m,          \* SimpleCache.m : key -> [v, exp]  (the entries present)
    now,        \* Date.now()
    ticks,      \* number of clock advances so far (bounds the run)
    lastOp,     \* the operation that produced this state
    lastSet,    \* cache driver: key -> the most recent set on it
    got,        \* cache driver: what a get, when it is the last operation, saw and returned
    fo,         \* fetchSSTDayAvg driver: what the upstream did on the call
    fr,         \* fetchSSTDayAvg driver: how the call ended
    nd,         \* fetchSSTWithNudge driver: the call in progress
    req,        \* GET /api/sst/point: slot -> the request being handled in it
    load,       \* GET /api/sst/point: dates the requests so far asked for (bounds the run)
    stored,     \* GET /api/sst/point: the payloads computed and cached, in order
    dt,         \* drivers of the pure functions (date generators, suitForTemp, quantile): the arguments and what was returned
    grid,       \* GET /api/sst/grid: the request being handled
    ui          \* map page: the component's state and the point lookups it has started

cacheVars == <<m, now, ticks, lastOp, lastSet, got>>
fetchVars == <<fo, fr>>
pointVars == <<req, load, stored>>
dateVars == <<dt>>
gridVars == <<grid>>
uiVars == <<ui>>
vars == <<m, now, ticks, lastOp, lastSet, got, fo, fr, nd, req, load, stored, dt, grid, ui>>

----------------------------------------------------------------------------
(* Bounds *)

MaxTicks == 3       \* clock advances in one run

MaxHourly == 4      \* hourly readings in one upstream response
MaxAttemptsArg == 4 \* largest maxAttempts passed to fetchSSTWithNudge
MaxDates == 6       \* dates the point requests of one run ask for
MaxPointTicks == 1  \* clock advances in one run of the point handler
MaxYears == 3       \* largest years passed to getHistoricalDates
MaxGridRequests == 2 \* grid requests received in one run
MaxGridTicks == 1   \* clock advances in one run of the grid handler
MaxRadius == 3      \* largest daysRange passed to getForecastDates
MaxArr == 3         \* longest array of arbitrary samples passed to quantile
MaxLookups == 3     \* point lookups the map page starts in one run

(* Program constants *)

SWEEP_SIZE == 200   \* sweep(): if (this.m.size < 200) return
MS_PER_SEC == 1000  \* set(): exp = Date.now() + ttlSec * 1000
NUDGE_AMOUNT == 200 \* nudgeAmount = 0.02 degrees, in units of 0.0001 degree
POINT_TTL == 1800   \* cache.set(cacheKey, payload, 1800)
POINT_NUDGES == 3   \* fetchSSTWithNudge(lat, lon, date, 3)
GRID_CAP == 1000    \* if (coords.length > 1000)
GRID_TTL == 900     \* cache.set(cacheKey, payload, 900)

null == <<>>         \* JavaScript null

----------------------------------------------------------------------------
(* SimpleCache *)

\* get() without the expiry test
get_NoExpiry(mm, k, t) ==
    IF k \notin DOMAIN mm THEN [m |-> mm, some |-> FALSE, r |-> null]
    ELSE [m |-> mm, some |-> TRUE, r |-> mm[k].v]

\* get() that treats an entry as expired from its expiry instant on
get_ExpiresEarly(mm, k, t) ==
    IF k \notin DOMAIN mm THEN [m |-> mm, some |-> FALSE, r |-> null]
    ELSE IF t >= mm[k].exp
         THEN [m |-> [x \in DOMAIN mm \ {k} |-> mm[x]], some |-> FALSE, r |-> null]
         ELSE [m |-> mm, some |-> TRUE, r |-> mm[k].v]

\* get(k): the map after the call and the value returned (some = FALSE: the
\* call returned null)
get(mm, k, t) ==
    IF k \notin DOMAIN mm THEN [m |-> mm, some |-> FALSE, r |-> null]
    ELSE IF t > mm[k].exp
         THEN [m |-> [x \in DOMAIN mm \ {k} |-> mm[x]], some |-> FALSE, r |-> null]
         ELSE [m |-> mm, some |-> TRUE, r |-> mm[k].v]

\* sweep() without the size test
sweep_Always(mm, t) ==
    [x \in {y \in DOMAIN mm : ~(t > mm[y].exp)} |-> mm[x]]

\* sweep(): below the size threshold nothing; else drop every expired entry
sweep(mm, t) ==
    IF Cardinality(DOMAIN mm) < SWEEP_SIZE THEN mm
    ELSE [x \in {y \in DOMAIN mm : ~(t > mm[y].exp)} |-> mm[x]]

\* set(k, v, ttlSec): insert or overwrite, then sweep
set(mm, k, v, ttlSec, t) ==
    sweep([x \in DOMAIN mm \cup {k} |->
              IF x = k THEN [v |-> v, exp |-> t + ttlSec * MS_PER_SEC]
              ELSE mm[x]], t)

----------------------------------------------------------------------------
(* A driver of the cache: any sequence of set, get and clock advances.     *)

CacheKeys == {<<"key", 1>>, <<"key", 2>>}
FillerKeys(n) == {<<"fill", i>> : i \in 1..n}
CacheVals == {"a", "b"}
TtlChoices == {1, 2}
TimeSteps == {1, MS_PER_SEC}
NoSet == [v |-> null, t |-> 0, ttl |-> 0, any |-> FALSE]
NoGet == [k |-> <<"key", 1>>, some |-> FALSE, r |-> null, had |-> FALSE, exp |-> 0, at |-> 0]

\* The cache after n entries were set at time 0, the last with ttl 2 s and
\* the others with ttl 1 s (below the threshold no sweep has run on them).
Filled(n) ==
    [x \in FillerKeys(n) |->
        [v |-> "f", exp |-> IF x[2] = n THEN 2 * MS_PER_SEC ELSE MS_PER_SEC]]

CacheInit ==
    /\ \E n \in {0, SWEEP_SIZE - 1} : m = Filled(n)
    /\ now = 0
    /\ ticks = 0
    /\ lastOp = "init"
    /\ lastSet = [k \in CacheKeys |-> NoSet]
    /\ got = NoGet
    /\ fo = null /\ fr = null /\ nd = null /\ ui = null /\ dt = null /\ grid = null
    /\ req = <<>> /\ load = 0 /\ stored = <<>>

DoSet ==
    \E k \in CacheKeys, v \in CacheVals, ttl \in TtlChoices :
        /\ m' = set(m, k, v, ttl, now)
        /\ lastSet' = [lastSet EXCEPT ![k] = [v |-> v, t |-> now, ttl |-> ttl, any |-> TRUE]]
        /\ lastOp' = "set"
        /\ got' = NoGet
        /\ UNCHANGED <<now, ticks>>

DoGet ==
    \E k \in CacheKeys :
        /\ m' = get(m, k, now).m
        /\ got' = [k |-> k, some |-> get(m, k, now).some, r |-> get(m, k, now).r,
                   had |-> k \in DOMAIN m,
                   exp |-> IF k \in DOMAIN m THEN m[k].exp ELSE 0, at |-> now]
        /\ lastOp' = "get"
        /\ UNCHANGED <<now, ticks, lastSet>>

Tick ==
    \E d \in TimeSteps :
        /\ ticks < MaxTicks
        /\ now' = now + d
        /\ ticks' = ticks + 1
        /\ lastOp' = "tick"
        /\ got' = NoGet
        /\ UNCHANGED <<m, lastSet>>

CacheNext == (DoSet \/ DoGet \/ Tick) /\ UNCHANGED <<fetchVars, nd, pointVars, dateVars, gridVars, uiVars>>

SpecCache == CacheInit /\ [][CacheNext]_vars

----------------------------------------------------------------------------
\* C1: get(k) never returns the value of an entry whose expiry time is
\* earlier than the current time: it returns absent and deletes the entry
\* (whatever the cache size, whether or not a sweep has run).
C1_NoExpiredReturned ==
    (lastOp = "get" /\ got.had /\ got.exp < got.at)
        => (~got.some /\ got.k \notin DOMAIN m)

\* A get met an expired entry while the cache was below the sweep threshold
\* (no sweep could have removed it) and answered absent.
C1_Witness ==
    /\ lastOp = "get" /\ got.had /\ got.exp < got.at
    /\ ~got.some
    /\ Cardinality(DOMAIN m) < SWEEP_SIZE - 1

\* C2: if the most recent set on k was set(k, v, ttl) with ttl > 0 at time t,
\* get(k) returns v while now <= t + ttl seconds, whatever happened to other
\* keys and whatever sweeps ran, and absent once now > t + ttl seconds, also
\* when k was read in between.
C2_TtlRespected ==
    (lastOp = "get" /\ lastSet[got.k].any /\ lastSet[got.k].ttl > 0)
        => IF got.at <= lastSet[got.k].t + lastSet[got.k].ttl * MS_PER_SEC
           THEN got.some /\ got.r = lastSet[got.k].v
           ELSE ~got.some

\* A get at exactly t + ttl seconds returned the value, in a cache at the
\* sweep threshold (every set swept it) and after another key was set.
C2_Witness ==
    /\ lastOp = "get" /\ lastSet[got.k].any /\ lastSet[got.k].ttl > 0
    /\ got.at = lastSet[got.k].t + lastSet[got.k].ttl * MS_PER_SEC
    /\ got.some /\ got.r = lastSet[got.k].v
    /\ Cardinality(DOMAIN m) >= SWEEP_SIZE
    /\ \E k2 \in CacheKeys \ {got.k} : lastSet[k2].any /\ lastSet[k2].t > lastSet[got.k].t

----------------------------------------------------------------------------
(* Numbers.  A JavaScript number is modelled as the rational <<n, d>> in    *)
(* lowest terms with d > 0; null is <<>>.                                   *)

Abs(x) == IF x < 0 THEN -x ELSE x

RECURSIVE GCD(_, _)
GCD(a, b) == IF b = 0 THEN a ELSE GCD(b, a % b)

Rat(n, d) ==
    LET g == GCD(Abs(n), Abs(d))
        sg == IF d < 0 THEN -1 ELSE 1
    IN  <<sg * (n \div g), sg * (d \div g)>>

Num(i) == <<i, 1>>
RAdd(a, b) == Rat(a[1] * b[2] + b[1] * a[2], a[2] * b[2])
RSub(a, b) == Rat(a[1] * b[2] - b[1] * a[2], a[2] * b[2])
RMul(a, b) == Rat(a[1] * b[1], a[2] * b[2])
RDiv(a, b) == Rat(a[1] * b[2], a[2] * b[1])
RLeq(a, b) == a[1] * b[2] <= b[1] * a[2]
RLess(a, b) == a[1] * b[2] < b[1] * a[2]

\* arr.filter((t) => t !== null)
RECURSIVE FilterNonNull(_)
FilterNonNull(arr) ==
    IF arr = <<>> THEN <<>>
    ELSE IF Head(arr) # null THEN <<Head(arr)>> \o FilterNonNull(Tail(arr))
         ELSE FilterNonNull(Tail(arr))

\* arr.reduce((a, b) => a + b, 0)
RECURSIVE ReduceSum(_)
ReduceSum(arr) ==
    IF arr = <<>> THEN Num(0)
    ELSE RAdd(ReduceSum(SubSeq(arr, 1, Len(arr) - 1)), arr[Len(arr)])

----------------------------------------------------------------------------
(* lib/sst: fetchSSTDayAvg.  What the upstream did on one call:             *)
(*   net    fetch() rejected (network failure, aborted)                     *)
(*   status a response with r.ok false                                      *)
(*   body   r.json() rejected (the body is not JSON)                        *)
(*   shape  JSON whose hourly.sea_surface_temperature is no array           *)
(*   nohourly  JSON without hourly.sea_surface_temperature                  *)
(*   json   JSON carrying the hourly series temps                           *)

Threw == [threw |-> TRUE, v |-> null]
Returned(x) == [threw |-> FALSE, v |-> x]

\* the daily average taken over every hourly slot, null ones included
fetchBody_DividesByAll(o) ==
    CASE o.kind = "net" -> Threw
      [] o.kind = "status" -> Returned(null)
      [] o.kind = "body" -> Threw
      [] o.kind = "shape" -> Threw
      [] OTHER ->
            LET temps == IF o.kind = "nohourly" THEN <<>> ELSE o.temps
                validTemps == FilterNonNull(temps)
            IN  IF Len(temps) = 0 THEN Returned(null)
                ELSE IF Len(validTemps) = 0 THEN Returned(null)
                ELSE Returned(RDiv(ReduceSum(validTemps), Num(Len(temps))))

\* the body of the try block
fetchBody(o) ==
    CASE o.kind = "net" -> Threw
      [] o.kind = "status" -> Returned(null)
      [] o.kind = "body" -> Threw
      [] o.kind = "shape" -> Threw
      [] OTHER ->
            LET temps == IF o.kind = "nohourly" THEN <<>> ELSE o.temps
                validTemps == FilterNonNull(temps)
            IN  IF Len(temps) = 0 THEN Returned(null)
                ELSE IF Len(validTemps) = 0 THEN Returned(null)
                ELSE Returned(RDiv(ReduceSum(validTemps), Num(Len(validTemps))))

\* fetchSSTDayAvg whose catch rethrows
fetchSSTDayAvg_Rethrows(o) == fetchBody(o)

\* try { ... } catch (err) { return null }
fetchSSTDayAvg(o) ==
    IF fetchBody(o).threw THEN Returned(null) ELSE fetchBody(o)

Readings == {null, Num(18), Rat(53, 2)}

RECURSIVE SeqsUpTo(_, _)
SeqsUpTo(S, n) ==
    IF n = 0 THEN {<<>>}
    ELSE LET shorter == SeqsUpTo(S, n - 1)
         IN  shorter \cup {Append(q, x) : q \in {p \in shorter : Len(p) = n - 1}, x \in S}

Failure(kind) == [kind |-> kind, temps |-> <<>>]
UpstreamOutcomes ==
    {Failure(k) : k \in {"net", "status", "body", "shape", "nohourly"}}
        \cup {[kind |-> "json", temps |-> t] : t \in SeqsUpTo(Readings, MaxHourly)}

\* One call of fetchSSTDayAvg against an upstream that may do anything.
FetchInit ==
    /\ fo = null /\ fr = null /\ nd = null /\ ui = null /\ dt = null /\ grid = null
    /\ req = <<>> /\ load = 0 /\ stored = <<>>
    /\ m = Filled(0) /\ now = 0 /\ ticks = 0 /\ lastOp = "init"
    /\ lastSet = [k \in CacheKeys |-> NoSet] /\ got = NoGet

FetchCall ==
    /\ fo = null
    /\ \E o \in UpstreamOutcomes :
        /\ fo' = o
        /\ fr' = fetchSSTDayAvg(o)
    /\ UNCHANGED <<cacheVars, nd, pointVars, dateVars, gridVars, uiVars>>

SpecFetch == FetchInit /\ [][FetchCall]_vars

\* The non-null readings of a series, counted and summed slot by slot.
ValidSlots(temps) == {i \in 1..Len(temps) : temps[i] # null}

RECURSIVE SlotSum(_, _)
SlotSum(temps, S) ==
    IF S = {} THEN Num(0)
    ELSE LET i == CHOOSE j \in S : TRUE
         IN  RAdd(temps[i], SlotSum(temps, S \ {i}))

\* C9: fetchSSTDayAvg never throws; it resolves to null for every failed,
\* unparsable, missing, empty or all-null upstream answer, and otherwise to
\* the sum of the non-null hourly readings divided by their number.
C9_DayAvgTotal ==
    fo # null =>
        /\ ~fr.threw
        /\ IF fo.kind = "json" /\ ValidSlots(fo.temps) # {}
           THEN /\ fr.v # null
                /\ RMul(fr.v, Num(Cardinality(ValidSlots(fo.temps))))
                      = SlotSum(fo.temps, ValidSlots(fo.temps))
           ELSE fr.v = null

\* A series mixing null and non-null readings was averaged over the non-null
\* ones only.
C9_Witness ==
    /\ fo # null /\ fo.kind = "json"
    /\ Cardinality(ValidSlots(fo.temps)) = 2 /\ Len(fo.temps) = 3
    /\ fr = Returned(Rat(89, 4))

----------------------------------------------------------------------------
(* lib/sst: fetchSSTWithNudge.  Coordinates are integers in units of        *)
(* 0.0001 degree (what toFixed(4) sends upstream).  A call in progress is   *)
(* the record of its arguments, the fetchSSTDayAvg calls it has issued, the *)
(* answers it has had, and how it ended.                                    *)

Min(a, b) == IF a < b THEN a ELSE b

\* the nudged coordinates tried west first
attempts_WestFirst(lat, lon) ==
    << [lat |-> lat, lon |-> lon - NUDGE_AMOUNT],
       [lat |-> lat, lon |-> lon + NUDGE_AMOUNT],
       [lat |-> lat + NUDGE_AMOUNT, lon |-> lon] >>

\* const attempts = [ {lat, lon: lon + n}, {lat, lon: lon - n}, {lat: lat + n, lon} ]
attempts(lat, lon) ==
    << [lat |-> lat, lon |-> lon + NUDGE_AMOUNT],
       [lat |-> lat, lon |-> lon - NUDGE_AMOUNT],
       [lat |-> lat + NUDGE_AMOUNT, lon |-> lon] >>

Call(c, dateISO) == [lat |-> c.lat, lon |-> c.lon, date |-> dateISO]

\* the call up to its first await: fetchSSTDayAvg(lat, lon, dateISO) is issued
nudgeBegin(lat, lon, dateISO, maxAttempts) ==
    [lat |-> lat, lon |-> lon, date |-> dateISO, max |-> maxAttempts,
     calls |-> <<Call([lat |-> lat, lon |-> lon], dateISO)>>,
     answers |-> <<>>, pc |-> "await", ret |-> Returned(null)]

\* a resume that goes on to the next attempt whatever the answer was
nudgeResume_NoEarlyReturn(st, res) ==
    LET i == Len(st.calls) - 1
        got1 == [st EXCEPT !.answers = Append(@, res.v)]
    IN  IF res.threw THEN [got1 EXCEPT !.pc = "done", !.ret = Threw]
        ELSE IF i < Min(st.max, Len(attempts(st.lat, st.lon)))
        THEN [got1 EXCEPT !.calls =
                 Append(@, Call(attempts(st.lat, st.lon)[i + 1], st.date))]
        ELSE [got1 EXCEPT !.pc = "done", !.ret = Returned(res.v)]

\* the call from the answer res of its pending fetchSSTDayAvg to its next
\* await or its return: i is the index of the next attempt
nudgeResume(st, res) ==
    LET i == Len(st.calls) - 1
        got1 == [st EXCEPT !.answers = Append(@, res.v)]
    IN  IF res.threw THEN [got1 EXCEPT !.pc = "done", !.ret = Threw]
        ELSE IF res.v # null THEN [got1 EXCEPT !.pc = "done", !.ret = Returned(res.v)]
        ELSE IF i < Min(st.max, Len(attempts(st.lat, st.lon)))
        THEN [got1 EXCEPT !.calls =
                 Append(@, Call(attempts(st.lat, st.lon)[i + 1], st.date))]
        ELSE [got1 EXCEPT !.pc = "done", !.ret = Returned(null)]

\* A driver: one call of fetchSSTWithNudge, the upstream answering each
\* fetchSSTDayAvg call in any way.
Lats == {400000, -1}
Lons == {-700000, 150}
SomeDate == <<2025, 11, 19>>
NudgeOutcomes ==
    { Failure("status"), Failure("net"),
      [kind |-> "json", temps |-> <<null>>],
      [kind |-> "json", temps |-> <<Num(18)>>],
      [kind |-> "json", temps |-> <<null, Num(18)>>] }

NudgeInit ==
    /\ nd = null /\ dt = null /\ grid = null
    /\ req = <<>> /\ load = 0 /\ stored = <<>>
    /\ fo = null /\ fr = null /\ ui = null
    /\ m = Filled(0) /\ now = 0 /\ ticks = 0 /\ lastOp = "init"
    /\ lastSet = [k \in CacheKeys |-> NoSet] /\ got = NoGet

NudgeStart ==
    /\ nd = null
    /\ \E lat \in Lats, lon \in Lons, maxAttempts \in 0..MaxAttemptsArg :
        nd' = nudgeBegin(lat, lon, SomeDate, maxAttempts)
    /\ UNCHANGED <<cacheVars, fetchVars, pointVars, dateVars, gridVars, uiVars>>

NudgeAnswer ==
    /\ nd # null /\ nd.pc = "await"
    /\ \E o \in NudgeOutcomes : nd' = nudgeResume(nd, fetchSSTDayAvg(o))
    /\ UNCHANGED <<cacheVars, fetchVars, pointVars, dateVars, gridVars, uiVars>>

NudgeNext == NudgeStart \/ NudgeAnswer

SpecNudge == NudgeInit /\ [][NudgeNext]_vars

\* The four calls in the order the specification gives them.
NudgeOrder(lat, lon, dateISO) ==
    << [lat |-> lat, lon |-> lon, date |-> dateISO],
       [lat |-> lat, lon |-> lon + 200, date |-> dateISO],
       [lat |-> lat, lon |-> lon - 200, date |-> dateISO],
       [lat |-> lat + 200, lon |-> lon, date |-> dateISO] >>

----------------------------------------------------------------------------
(* lib/dates.  An ISO date string YYYY-MM-DD is the tuple <<y, m, d>> of its *)
(* three fields; a string that does not have that shape is NotADate.         *)

NotADate == <<0, 0, 0, "malformed">>

IsLeap(y) == (y % 4 = 0 /\ y % 100 # 0) \/ y % 400 = 0

\* a calendar with a leap day every fourth year
DaysInMonth_Julian(y, mo) ==
    IF mo = 2 THEN (IF y % 4 = 0 THEN 29 ELSE 28)
    ELSE IF mo \in {4, 6, 9, 11} THEN 30 ELSE 31

DaysInMonth(y, mo) ==
    IF mo = 2 THEN (IF IsLeap(y) THEN 29 ELSE 28)
    ELSE IF mo \in {4, 6, 9, 11} THEN 30 ELSE 31

\* new Date(...): a day number beyond the month's end rolls into the next
\* months, one below 1 into the previous ones (MakeDay)
RECURSIVE MakeDay(_, _, _)
MakeDay(y, mo, d) ==
    IF d > DaysInMonth(y, mo)
    THEN (IF mo = 12 THEN MakeDay(y + 1, 1, d - DaysInMonth(y, mo))
          ELSE MakeDay(y, mo + 1, d - DaysInMonth(y, mo)))
    ELSE IF d < 1
    THEN (IF mo = 1 THEN MakeDay(y - 1, 12, d + DaysInMonth(y - 1, 12))
          ELSE MakeDay(y, mo - 1, d + DaysInMonth(y, mo - 1)))
    ELSE <<y, mo, d>>

\* addDays(dateISO, days): setUTCDate(getUTCDate() + days)
addDays(dateISO, days) ==
    LET d0 == MakeDay(dateISO[1], dateISO[2], dateISO[3])
    IN  MakeDay(d0[1], d0[2], d0[3] + days)

\* getHistoricalDates that takes the year from the anchor instead of from
\* the shifted date
RECURSIVE getHistoricalDates_AnchorYear(_, _)
getHistoricalDates_AnchorYear(dateISO, years) ==
    IF years < 1 THEN <<>>
    ELSE LET ofYear == [i \in 1..3 |->
                 LET historicalDate == addDays(dateISO, i - 2)
                 IN  <<dateISO[1] - years, historicalDate[2], historicalDate[3]>>]
         IN  ofYear \o getHistoricalDates_AnchorYear(dateISO, years - 1)

\* getHistoricalDates(dateISO, years): for yearOffset = years down to 1, for
\* dayOffset = -1, 0, 1: the month-day of addDays(dateISO, dayOffset) behind
\* the year of that date minus yearOffset
RECURSIVE getHistoricalDates(_, _)
getHistoricalDates(dateISO, years) ==
    IF years < 1 THEN <<>>
    ELSE LET ofYear == [i \in 1..3 |->
                 LET historicalDate == addDays(dateISO, i - 2)
                 IN  <<historicalDate[1] - years, historicalDate[2], historicalDate[3]>>]
         IN  ofYear \o getHistoricalDates(dateISO, years - 1)

\* getForecastDates(dateISO, daysRange): addDays(dateISO, dayOffset) for
\* dayOffset = -daysRange .. daysRange
getForecastDates(dateISO, daysRange) ==
    IF daysRange < 0 THEN <<>>
    ELSE [i \in 1..(2 * daysRange + 1) |-> addDays(dateISO, i - 1 - daysRange)]

\* isValidISODate: the pattern, and Date.parse not NaN.  Date.parse rejects a
\* month outside 01..12 and a day outside 01..31; for a day 29..31 that the
\* month does not have, engines differ (V8 rolls it over, others give NaN):
\* the set of answers a runtime can give.
isValidISODate(dateISO) ==
    IF dateISO = NotADate THEN {FALSE}
    ELSE IF dateISO[2] \notin 1..12 \/ dateISO[3] \notin 1..31 THEN {FALSE}
    ELSE IF dateISO[3] > DaysInMonth(dateISO[1], dateISO[2]) THEN {TRUE, FALSE}
    ELSE {TRUE}

----------------------------------------------------------------------------
(* lib/suit *)

NoPrefs == [runsCold |-> FALSE, diveMinutes |-> 0]

\* suitForTemp with the thresholds as exclusive lower bounds
suitForTemp_Exclusive(tempC, prefs) ==
    LET bias == RAdd(IF prefs.runsCold THEN Num(-1) ELSE Num(0),
                     IF prefs.diveMinutes # 0 /\ prefs.diveMinutes > 45
                     THEN Rat(-1, 2) ELSE Num(0))
        adjustedTemp == RAdd(tempC, bias)
    IN  IF RLess(Num(26), adjustedTemp) THEN [type |-> "shorty", notes |-> ">=26"]
        ELSE IF RLess(Num(23), adjustedTemp) THEN [type |-> "full-3mm", notes |-> "23-26"]
        ELSE IF RLess(Num(20), adjustedTemp) THEN [type |-> "full-5mm", notes |-> "20-23"]
        ELSE IF RLess(Num(16), adjustedTemp) THEN [type |-> "full-7mm", notes |-> "16-20"]
        ELSE IF RLess(Num(10), adjustedTemp) THEN [type |-> "drysuit", notes |-> "10-16"]
        ELSE [type |-> "drysuit", notes |-> "<10"]

\* suitForTemp(tempC, prefs)
suitForTemp(tempC, prefs) ==
    LET bias == RAdd(IF prefs.runsCold THEN Num(-1) ELSE Num(0),
                     IF prefs.diveMinutes # 0 /\ prefs.diveMinutes > 45
                     THEN Rat(-1, 2) ELSE Num(0))
        adjustedTemp == RAdd(tempC, bias)
    IN  IF RLeq(Num(26), adjustedTemp) THEN [type |-> "shorty", notes |-> ">=26"]
        ELSE IF RLeq(Num(23), adjustedTemp) THEN [type |-> "full-3mm", notes |-> "23-26"]
        ELSE IF RLeq(Num(20), adjustedTemp) THEN [type |-> "full-5mm", notes |-> "20-23"]
        ELSE IF RLeq(Num(16), adjustedTemp) THEN [type |-> "full-7mm", notes |-> "16-20"]
        ELSE IF RLeq(Num(10), adjustedTemp) THEN [type |-> "drysuit", notes |-> "10-16"]
        ELSE [type |-> "drysuit", notes |-> "<10"]

----------------------------------------------------------------------------
(* routes/api/sst/point: statistics *)

\* [...arr].sort((a, b) => a - b)
RECURSIVE SortAsc(_)
SortAsc(arr) ==
    IF Len(arr) <= 1 THEN arr
    ELSE LET rest == SortAsc(Tail(arr))
             x == Head(arr)
             k == Cardinality({i \in 1..Len(rest) : RLess(rest[i], x)})
         IN  SubSeq(rest, 1, k) \o <<x>> \o SubSeq(rest, k + 1, Len(rest))

\* Math.floor of a rational
Floor(a) == a[1] \div a[2]

\* quantile without the sort
quantile_NoSort(arr, q) ==
    LET sorted == arr
        pos == RMul(Num(Len(sorted) - 1), q)
        base == Floor(pos)
        rest == RSub(pos, Num(base))
        nextIndex == base + 1
    IN  IF nextIndex < Len(sorted)
        THEN RAdd(sorted[base + 1],
                  RMul(rest, RSub(sorted[nextIndex + 1], sorted[base + 1])))
        ELSE sorted[base + 1]

\* quantile(arr, q)
quantile(arr, q) ==
    LET sorted == SortAsc(arr)
        pos == RMul(Num(Len(sorted) - 1), q)
        base == Floor(pos)
        rest == RSub(pos, Num(base))
        nextIndex == base + 1
    IN  IF nextIndex < Len(sorted)
        THEN RAdd(sorted[base + 1],
                  RMul(rest, RSub(sorted[nextIndex + 1], sorted[base + 1])))
        ELSE sorted[base + 1]

\* Math.min(...arr), Math.max(...arr)
MathMin(arr) == SortAsc(arr)[1]
MathMax(arr) == SortAsc(arr)[Len(arr)]

----------------------------------------------------------------------------
(* routes/api/sst/point: GET handler.                                       *)
(* A query parameter lat or lon is [pat, val]: whether the string matches   *)
(* the schema's pattern, and what parseFloat makes of it (units of 0.0001   *)
(* degree).  years and forecastDays are what parseInt makes of them.        *)

Slots == {1, 2}
Pending == <<"pending">>

\* x.toFixed(3): sign, and the magnitude rounded to three decimals
toFixed3(x) == [neg |-> x < 0, n |-> (Abs(x) + 5) \div 10]

\* `point:${lat.toFixed(3)}:${lon.toFixed(3)}:${date}:${years}:${forecastDays}`
cacheKey(lat, lon, date, years, forecastDays) ==
    <<"point", toFixed3(lat), toFixed3(lon), date, years, forecastDays>>

ValidationError(msg) == [status |-> 400, kind |-> msg, payload |-> null]
NoDataError == [status |-> 404, kind |-> "NO_DATA", payload |-> null]
UpstreamError == [status |-> 502, kind |-> "Failed to fetch SST data", payload |-> null]
Success(payload) == [status |-> 200, kind |-> "payload", payload |-> payload]
NoResponse == [status |-> 0, kind |-> "none", payload |-> null]

\* a row that always carries a suit
Row_AlwaysSuit(d, temp, kind) ==
    [date |-> d, tempC |-> temp,
     suit |-> suitForTemp(IF temp # null THEN temp ELSE Num(0), NoPrefs),
     kind |-> kind]

Row(d, temp, kind) ==
    [date |-> d, tempC |-> temp,
     suit |-> IF temp # null THEN suitForTemp(temp, NoPrefs) ELSE null,
     kind |-> kind]

Reverse(arr) == [i \in 1..Len(arr) |-> arr[Len(arr) + 1 - i]]

\* rows with the historical temperatures attached after the reversal
composeRows_TempsUnreversed(historicalDates, historicalTemps, date, selectedTemp, forecastDates, forecastTemps) ==
    LET historicalRows == [i \in 1..Len(historicalDates) |->
                              Row(Reverse(historicalDates)[i], historicalTemps[i], "historical")]
        selectedRow == Row(date, selectedTemp, "selected")
        forecastRows == [i \in 1..Len(forecastDates) |->
                            Row(forecastDates[i], forecastTemps[i], "forecast")]
    IN  historicalRows \o <<selectedRow>> \o forecastRows

\* rows = [...historicalRows.reverse(), selectedRow, ...forecastRows]
composeRows(historicalDates, historicalTemps, date, selectedTemp, forecastDates, forecastTemps) ==
    LET historicalRows == [i \in 1..Len(historicalDates) |->
                              Row(historicalDates[i], historicalTemps[i], "historical")]
        selectedRow == Row(date, selectedTemp, "selected")
        forecastRows == [i \in 1..Len(forecastDates) |->
                            Row(forecastDates[i], forecastTemps[i], "forecast")]
    IN  Reverse(historicalRows) \o <<selectedRow>> \o forecastRows

RowTemps(rows) == [i \in 1..Len(rows) |-> rows[i].tempC]

computeStats(validTemps) ==
    [mean |-> RDiv(ReduceSum(validTemps), Num(Len(validTemps))),
     min |-> MathMin(validTemps),
     max |-> MathMax(validTemps),
     p10 |-> quantile(validTemps, Rat(1, 10)),
     p90 |-> quantile(validTemps, Rat(9, 10))]

\* the handler's end with the payload cached before the no-data test
finishPoint_CachesFirst(mm, t, key, lat, lon, rows) ==
    LET validTemps == FilterNonNull(RowTemps(rows))
        payload == [location |-> [lat |-> lat, lon |-> lon], rows |-> rows,
                    stats |-> IF Len(validTemps) = 0 THEN null
                              ELSE computeStats(validTemps)]
    IN  IF Len(validTemps) = 0
        THEN [m |-> set(mm, key, payload, POINT_TTL, t), resp |-> NoDataError, put |-> FALSE]
        ELSE [m |-> set(mm, key, payload, POINT_TTL, t), resp |-> Success(payload), put |-> TRUE]

\* the handler's end without the no-data test
finishPoint_NoNoData(mm, t, key, lat, lon, rows) ==
    LET validTemps == FilterNonNull(RowTemps(rows))
        payload == [location |-> [lat |-> lat, lon |-> lon], rows |-> rows,
                    stats |-> IF Len(validTemps) = 0 THEN null
                              ELSE computeStats(validTemps)]
    IN  [m |-> set(mm, key, payload, POINT_TTL, t), resp |-> Success(payload), put |-> TRUE]

\* the handler's end storing the payload for half the time
finishPoint_ShortTtl(mm, t, key, lat, lon, rows) ==
    LET validTemps == FilterNonNull(RowTemps(rows))
    IN  IF Len(validTemps) = 0
        THEN [m |-> mm, resp |-> NoDataError, put |-> FALSE]
        ELSE LET payload == [location |-> [lat |-> lat, lon |-> lon], rows |-> rows,
                             stats |-> computeStats(validTemps)]
             IN  [m |-> set(mm, key, payload, POINT_TTL \div 2, t),
                  resp |-> Success(payload), put |-> TRUE]

\* from validTemps to the return: the 404, or stats, payload, cache.set and
\* the 200 (put: whether cache.set ran)
finishPoint(mm, t, key, lat, lon, rows) ==
    LET validTemps == FilterNonNull(RowTemps(rows))
    IN  IF Len(validTemps) = 0
        THEN [m |-> mm, resp |-> NoDataError, put |-> FALSE]
        ELSE LET payload == [location |-> [lat |-> lat, lon |-> lon], rows |-> rows,
                             stats |-> computeStats(validTemps)]
             IN  [m |-> set(mm, key, payload, POINT_TTL, t),
                  resp |-> Success(payload), put |-> TRUE]

\* schema validation that lets every string through
schemaOk_Lax(q) == TRUE

\* pointQuerySchema.safeParse(params).success
schemaOk(q) == q.lat.pat /\ q.lon.pat /\ q.date # NotADate

IdleReq ==
    [pc |-> "idle", q |-> null, key |-> null, looked |-> FALSE, errs |-> FALSE,
     historicalDates |-> <<>>, historicalTemps |-> <<>>, sel |-> null,
     forecastDates |-> <<>>, forecastTemps |-> <<>>, calls |-> <<>>,
     resp |-> NoResponse, arrived |-> 0, at |-> 0, before |-> null, seen |-> {},
     outOfOrder |-> FALSE]

IssueAll(lat, lon, dates) == [i \in 1..Len(dates) |-> Call([lat |-> lat, lon |-> lon], dates[i])]
AllPending(dates) == [i \in 1..Len(dates) |-> Pending]

\* From `await Promise.all(historicalTemps)` resolving to the next await:
\* fetchSSTWithNudge is called and issues its first fetch.
toNudge(rq) ==
    LET st == nudgeBegin(rq.q.lat.val, rq.q.lon.val, rq.q.date, POINT_NUDGES)
    IN  [rq EXCEPT !.pc = "nudge", !.sel = st, !.calls = @ \o st.calls]

\* From fetchSSTWithNudge returning to the next await: the forecast fetches
\* are issued.
toForecast(rq) ==
    LET dates == getForecastDates(rq.q.date, rq.q.forecastDays)
    IN  [rq EXCEPT !.pc = "fore", !.forecastDates = dates,
                   !.forecastTemps = AllPending(dates),
                   !.calls = @ \o IssueAll(rq.q.lat.val, rq.q.lon.val, dates)]

\* The handler from the request to its first await or its early return.
\* valid: what isValidISODate answered.
arrive(mm, t, q, valid) ==
    LET base == [IdleReq EXCEPT !.q = q, !.arrived = t]
    IN  IF ~schemaOk(q)
        THEN [m |-> mm, rq |-> [base EXCEPT !.pc = "done",
                                    !.resp = ValidationError("Invalid parameters")]]
        ELSE IF ~valid
        THEN [m |-> mm, rq |-> [base EXCEPT !.pc = "done",
                                    !.resp = ValidationError("Invalid date format")]]
        ELSE
          LET key == cacheKey(q.lat.val, q.lon.val, q.date, q.years, q.forecastDays)
              cached == get(mm, key, t)
              keyed == [base EXCEPT !.key = key, !.looked = TRUE]
          IN  IF cached.some
              THEN [m |-> cached.m,
                    rq |-> [keyed EXCEPT !.pc = "done", !.resp = Success(cached.r)]]
              ELSE
                LET dates == getHistoricalDates(q.date, q.years)
                    fetching == [keyed EXCEPT !.pc = "hist",
                                    !.historicalDates = dates,
                                    !.historicalTemps = AllPending(dates),
                                    !.calls = IssueAll(q.lat.val, q.lon.val, dates)]
                IN  [m |-> cached.m,
                     rq |-> IF Len(dates) = 0 THEN toNudge(fetching) ELSE fetching]

NoPending(temps) == \A i \in 1..Len(temps) : temps[i] # Pending

\* The fetch at index i of a Promise.all settles while one issued before it
\* is still pending (outOfOrder notes that this happened to the request).
Overtakes(temps, i) == \E j \in 1..(i - 1) : temps[j] = Pending

\* catch (err) { return json({ error: 'Failed to fetch SST data' }, { status: 502 }) }
caught(rq) == [rq EXCEPT !.pc = "done", !.resp = UpstreamError]
\* From the last forecast fetch settling to the return.
complete(mm, t, rq) ==
    LET rows == composeRows(rq.historicalDates, rq.historicalTemps, rq.q.date,
                            rq.sel.ret.v, rq.forecastDates, rq.forecastTemps)
        f == finishPoint(mm, t, rq.key, rq.q.lat.val, rq.q.lon.val, rows)
    IN  [m |-> f.m, rq |-> [rq EXCEPT !.pc = "done", !.resp = f.resp]]

ParamOk(v) == [pat |-> TRUE, val |-> v]
BadParam == [pat |-> FALSE, val |-> 0]
Anchor == <<2024, 3, 1>>
Query(lat, lon, date, years, forecastDays) ==
    [lat |-> lat, lon |-> lon, date |-> date, years |-> years,
     forecastDays |-> forecastDays]

\* A place without and with a year of history.
ValidInputs ==
    { Query(ParamOk(400000), ParamOk(-700000), Anchor, 0, 0),
      Query(ParamOk(400000), ParamOk(-700000), Anchor, 1, 0) }

\* A coordinate that shares the cache key of the first.
NearbyInputs == { Query(ParamOk(400001), ParamOk(-700000), Anchor, 0, 0) }

\* Requests with a malformed lat, lon or date; the last date has the shape
\* of a date and a day its month lacks.
MalformedInputs ==
    { Query(BadParam, ParamOk(-700000), Anchor, 0, 0),
      Query(ParamOk(400000), BadParam, Anchor, 0, 0),
      Query(ParamOk(400000), ParamOk(-700000), NotADate, 0, 0),
      Query(ParamOk(400000), ParamOk(-700000), <<2025, 13, 1>>, 0, 0),
      Query(ParamOk(400000), ParamOk(-700000), <<2025, 2, 30>>, 0, 0) }

\* What the upstream may do on a call: here no data or one reading;
\* AllOutcomes has every kind of failure and several readings.
PointOutcomes ==
    { [kind |-> "json", temps |-> <<null>>], [kind |-> "json", temps |-> <<Num(18)>>] }

AllOutcomes ==
    { Failure("status"), Failure("net"), Failure("body"), Failure("shape"),
      Failure("nohourly"), [kind |-> "json", temps |-> <<>>],
      [kind |-> "json", temps |-> <<null>>],
      [kind |-> "json", temps |-> <<Num(18)>>],
      [kind |-> "json", temps |-> <<null, Num(18)>>] }

IsFailure(o) == o.kind \in {"status", "net", "body", "shape"}

InFlight(r) == req[r].pc \in {"hist", "nudge", "fore"}

\* The dates a request asks for: three per year of history, the selected
\* one, and the forecast range.
DatesOf(q) == Len(getHistoricalDates(Anchor, q.years)) + 1
                  + Len(getForecastDates(Anchor, q.forecastDays))

\* A request that computed its payload (it was not served from the cache)
\* and returned it.
Computed(rq) == rq.pc = "done" /\ rq.resp.status = 200 /\ rq.calls # <<>>

\* A request that went upstream and ran to the end of the handler.
Fetched(rq) == rq.pc = "done" /\ rq.resp.status \in {200, 404} /\ rq.calls # <<>>

PointInit ==
    /\ req = [r \in Slots |-> IdleReq]
    /\ load = 0
    /\ stored = <<>>
    /\ m = Filled(0) /\ now = 0 /\ ticks = 0 /\ lastOp = "init"
    /\ lastSet = [k \in CacheKeys |-> NoSet] /\ got = NoGet
    /\ fo = null /\ fr = null /\ nd = null /\ ui = null /\ dt = null /\ grid = null

\* stored: key -> the payload most recently computed and returned under it,
\* and when.
Log(rq, t) ==
    IF Computed(rq)
    THEN [k \in DOMAIN stored \cup {rq.key} |->
             IF k = rq.key THEN [payload |-> rq.resp.payload, t |-> t] ELSE stored[k]]
    ELSE stored

Done(rq, t) == IF rq.pc = "done" THEN [rq EXCEPT !.at = t] ELSE rq

\* A request arrives, in a slot that holds no request in flight (the slots
\* are taken in order), and runs to its first await or to its response.
\* before notes what was last stored under its key by then, seen the
\* requests with its key that had gone upstream and returned.
\* The first request is always taken, a further one while the dates asked
\* for stay within N.
Arrive(r, Q, N) ==
    /\ ~InFlight(r)
    /\ \A r2 \in Slots : r2 < r => req[r2].pc # "idle"
    /\ \E q \in Q :
       /\ load = 0 \/ load + DatesOf(q) <= N
       /\ load' = load + DatesOf(q)
       /\ \E valid \in (IF schemaOk(q) THEN isValidISODate(q.date) ELSE {FALSE}) :
          \E a \in {arrive(m, now, q, valid)} :
          LET rq == IF a.rq.looked
                    THEN [a.rq EXCEPT
                            !.before = IF a.rq.key \in DOMAIN stored
                                       THEN stored[a.rq.key] ELSE null,
                            !.seen = {x \in Slots \ {r} :
                                        Fetched(req[x]) /\ req[x].key = a.rq.key}]
                    ELSE a.rq
          IN  /\ m' = a.m
              /\ req' = [x \in Slots |->
                           IF x = r THEN Done(rq, now)
                           ELSE [req[x] EXCEPT !.seen = @ \ {r}]]
    /\ UNCHANGED <<now, ticks, lastOp, lastSet, got, fetchVars, nd, dateVars, gridVars, stored, uiVars>>

\* One of the historical fetches settles; the last one resumes the handler.
HistAnswer(r, O) ==
    /\ req[r].pc = "hist"
    /\ \E i \in 1..Len(req[r].historicalTemps), o \in O :
        /\ req[r].historicalTemps[i] = Pending
        /\ \E res \in {fetchSSTDayAvg(o)} :
           LET rq1 == [req[r] EXCEPT !.historicalTemps[i] = res.v,
                                     !.errs = @ \/ IsFailure(o),
                                     !.outOfOrder = @ \/ Overtakes(req[r].historicalTemps, i)]
           IN  req' = [req EXCEPT ![r] =
                          IF res.threw THEN Done(caught(rq1), now)
                          ELSE IF NoPending(rq1.historicalTemps) THEN toNudge(rq1)
                          ELSE rq1]
    /\ UNCHANGED <<cacheVars, fetchVars, nd, dateVars, gridVars, load, stored, uiVars>>

\* The fetch fetchSSTWithNudge awaits settles: the next nudge is issued, or
\* the handler resumes and issues the forecast fetches.
nudgeStep(mm, t, rq, o) ==
    LET st == nudgeResume(rq.sel, fetchSSTDayAvg(o))
        rq1 == [rq EXCEPT
                   !.sel = st,
                   !.errs = @ \/ IsFailure(o),
                   !.calls = IF Len(st.calls) > Len(rq.sel.calls)
                             THEN Append(@, st.calls[Len(st.calls)]) ELSE @]
        rq2 == IF st.pc # "done" THEN rq1
               ELSE IF st.ret.threw THEN caught(rq1)
               ELSE toForecast(rq1)
    IN  IF rq2.pc = "fore" /\ Len(rq2.forecastDates) = 0
        THEN complete(mm, t, rq2) ELSE [m |-> mm, rq |-> rq2]

NudgeStep(r, O) ==
    /\ req[r].pc = "nudge"
    /\ \E o \in O : \E end \in {nudgeStep(m, now, req[r], o)} :
        /\ req' = [req EXCEPT ![r] = Done(end.rq, now)]
        /\ m' = end.m
        /\ stored' = Log(end.rq, now)
    /\ UNCHANGED <<now, ticks, lastOp, lastSet, got, fetchVars, nd, dateVars, gridVars, load, uiVars>>

\* One of the forecast fetches settles; the last one resumes the handler,
\* which composes the rows and responds.
foreAnswer(mm, t, rq, i, o) ==
    LET res == fetchSSTDayAvg(o)
        rq1 == [rq EXCEPT !.forecastTemps[i] = res.v, !.errs = @ \/ IsFailure(o),
                          !.outOfOrder = @ \/ Overtakes(rq.forecastTemps, i)]
    IN  IF res.threw THEN [m |-> mm, rq |-> caught(rq1)]
        ELSE IF NoPending(rq1.forecastTemps) THEN complete(mm, t, rq1)
        ELSE [m |-> mm, rq |-> rq1]

ForeAnswer(r, O) ==
    /\ req[r].pc = "fore"
    /\ \E i \in 1..Len(req[r].forecastTemps), o \in O :
        /\ req[r].forecastTemps[i] = Pending
        /\ \E end \in {foreAnswer(m, now, req[r], i, o)} :
            /\ req' = [req EXCEPT ![r] = Done(end.rq, now)]
            /\ m' = end.m
            /\ stored' = Log(end.rq, now)
    /\ UNCHANGED <<now, ticks, lastOp, lastSet, got, fetchVars, nd, dateVars, gridVars, load, uiVars>>

\* The clock advances by the point TTL, or by one millisecond more.
PointSteps == {POINT_TTL * MS_PER_SEC, POINT_TTL * MS_PER_SEC + 1}

PointTick ==
    /\ ticks < MaxPointTicks
    /\ \E d \in PointSteps : now' = now + d
    /\ ticks' = ticks + 1
    /\ UNCHANGED <<m, lastOp, lastSet, got, fetchVars, nd, pointVars, dateVars, gridVars, uiVars>>

\* The handler serving requests drawn from Q in the slots W (at most that
\* many in flight), the upstream answering from O; N bounds the dates asked
\* for.
PointNext(Q, W, O, N) ==
    \/ \E r \in W : Arrive(r, Q, N)
    \/ \E r \in W : HistAnswer(r, O)
    \/ \E r \in W : NudgeStep(r, O)
    \/ \E r \in W : ForeAnswer(r, O)
    \/ PointTick

\* Concurrent well-formed requests.
Spec == PointInit /\ [][PointNext(ValidInputs, Slots, PointOutcomes, MaxDates)]_vars

\* Requests one after the other, well-formed or not, against every kind of
\* upstream answer.
SpecPointSeq ==
    PointInit /\ [][PointNext(ValidInputs \cup NearbyInputs \cup MalformedInputs, {1},
                            AllOutcomes, MaxDates)]_vars

\* One request against an upstream that may leave a call unanswered: the
\* clock keeps running, no answer is promised.
SpecPointLive ==
    /\ PointInit
    /\ [][PointNext(ValidInputs, {1}, PointOutcomes, 0)]_vars
    /\ WF_vars(PointTick)

----------------------------------------------------------------------------
(* GET /api/sst/point: properties *)

TtlMs == POINT_TTL * MS_PER_SEC

\* C3 as stated: once a request with key K returned a success payload at
\* time t, a later request with key K arriving by t + 1800 s returns that
\* payload and makes no upstream call, and one arriving after t + 1800 s goes
\* upstream.
C3_SamePayloadAfterAnySuccess ==
    \A c \in Slots : \A x \in req[c].seen :
        Computed(req[x]) =>
            IF req[c].arrived <= req[x].at + TtlMs
            THEN req[c].calls = <<>> /\ req[c].resp = Success(req[x].resp.payload)
            ELSE req[c].calls # <<>>

\* C3 amended: a request with key K arriving within 1800 s of the most recent
\* store under K makes no upstream call and returns the payload stored
\* last; a request arriving later than that, or with nothing stored under K,
\* goes upstream.
C3_LatestStoreServed ==
    \A c \in Slots :
        req[c].looked =>
            IF req[c].before # null /\ req[c].arrived <= req[c].before.t + TtlMs
            THEN /\ req[c].calls = <<>>
                 /\ req[c].pc = "done"
                 /\ req[c].resp = Success(req[c].before.payload)
            ELSE req[c].calls # <<>>

\* A request served from the cache, at the last instant of the window, with
\* the payload of the later of two concurrent requests with its key, while
\* the earlier one had returned another payload.
C3_Witness ==
    \E c \in Slots : \E x \in req[c].seen :
        /\ Computed(req[x])
        /\ req[c].before # null
        /\ req[c].calls = <<>>
        /\ req[c].arrived = req[c].before.t + TtlMs
        /\ req[c].resp.status = 200
        /\ req[c].resp.payload # req[x].resp.payload

\* Every temperature a request's fetches yielded.
Yielded(rq) ==
    rq.historicalTemps \o (IF rq.sel = null THEN <<>> ELSE rq.sel.answers)
        \o rq.forecastTemps

AllNull(rq) == \A i \in 1..Len(Yielded(rq)) : Yielded(rq)[i] = null
AnyTemp(rq) == \E i \in 1..Len(Yielded(rq)) : Yielded(rq)[i] \notin {null, Pending}

GoodPayload(p) ==
    LET validTemps == FilterNonNull(RowTemps(p.rows))
    IN  /\ Len(validTemps) >= 1
        /\ p.stats # null
        /\ \E i \in 1..Len(validTemps) : p.stats.min = validTemps[i]
        /\ \E i \in 1..Len(validTemps) : p.stats.max = validTemps[i]
        /\ RLeq(p.stats.min, p.stats.mean) /\ RLeq(p.stats.mean, p.stats.max)

\* C5: whatever the interleaving of concurrent requests, a response is an
\* error or a payload with a row whose tempC is not null and stats over those
\* values, and so is every payload the cache holds.
C5_ErrorOrValidSample ==
    /\ \A r \in Slots :
          req[r].pc = "done" =>
              \/ req[r].resp.status \in {400, 404, 502}
              \/ req[r].resp.status = 200 /\ GoodPayload(req[r].resp.payload)
    /\ \A k \in DOMAIN m : GoodPayload(m[k].v)

\* A cached payload with a null row beside a non-null one, returned by one
\* of two requests that missed the cache together; the other ended with an
\* error.
C5_Witness ==
    /\ \E k \in DOMAIN m :
          /\ \E i \in 1..Len(m[k].v.rows) : m[k].v.rows[i].tempC = null
          /\ \E i \in 1..Len(m[k].v.rows) : m[k].v.rows[i].tempC # null
    /\ \E r, x \in Slots :
          /\ req[r].resp = NoDataError
          /\ Computed(req[x])
          /\ req[x].key = req[r].key
          /\ req[x].before = null /\ req[r].before = null

\* A date string that is a well-formed ISO date: the pattern, and a day the
\* calendar has.
WellFormedDate(d) ==
    /\ d # NotADate
    /\ d[2] \in 1..12
    /\ d[3] \in 1..DaysInMonth(d[1], d[2])

Malformed(q) == ~q.lat.pat \/ ~q.lon.pat \/ ~WellFormedDate(q.date)

\* C6: a request with a malformed lat, lon or date gets the 400 before the
\* cache is looked up or a fetch is issued.
C6_MalformedRejectedFirst ==
    \A r \in Slots :
        (req[r].pc # "idle" /\ Malformed(req[r].q)) =>
            /\ req[r].resp.status = 400
            /\ ~req[r].looked
            /\ req[r].calls = <<>>

\* C7: a valid request that goes upstream succeeds when one of its fetches
\* yields a temperature and ends with the 404 NO_DATA error otherwise,
\* whatever the other fetches did; no upstream failure gives a 502.
C7_FailuresBecomeNull ==
    \A r \in Slots :
        (req[r].pc = "done" /\ req[r].looked /\ req[r].calls # <<>>) =>
            IF AnyTemp(req[r])
            THEN req[r].resp.status = 200
            ELSE req[r].resp = NoDataError

\* A request with a year of history answered with a payload although one of
\* its fetches failed.
C7_Witness ==
    \E r \in Slots :
        /\ req[r].pc = "done"
        /\ req[r].errs
        /\ req[r].q.years > 0
        /\ req[r].resp.status = 200

\* C8: a request that was received is eventually answered, even when the
\* upstream leaves calls unanswered.
C8_AlwaysAnswered ==
    \A r \in Slots : (req[r].pc # "idle") ~> (req[r].pc = "done")

----------------------------------------------------------------------------
(* GET /api/sst/point: the rows of a response *)

\* Requests with history or a forecast range, around a leap day, a year's
\* first day and a year's last day.
RowInputs ==
    { Query(ParamOk(400000), ParamOk(-700000), <<2024, 3, 1>>, 0, 1),
      Query(ParamOk(400000), ParamOk(-700000), <<2025, 1, 1>>, 1, 0),
      Query(ParamOk(400000), ParamOk(-700000), <<2024, 12, 31>>, 0, 2) }

\* Upstream answers with no reading and with two different day averages.
RowOutcomes ==
    { [kind |-> "json", temps |-> <<null>>],
      [kind |-> "json", temps |-> <<Num(18)>>],
      [kind |-> "json", temps |-> <<null, Rat(53, 2)>>] }

\* One request with history or a forecast range, every fetch answered.
SpecPointRows == PointInit /\ [][PointNext(RowInputs, {1}, RowOutcomes, 0)]_vars

\* a < b for two ISO date strings (they compare as their fields do)
DateLess(a, b) ==
    \/ a[1] < b[1]
    \/ a[1] = b[1] /\ a[2] < b[2]
    \/ a[1] = b[1] /\ a[2] = b[2] /\ a[3] < b[3]

InSeq(x, arr) == \E i \in 1..Len(arr) : arr[i] = x

\* A request answered with a payload it computed.
Answered(r) == Computed(req[r])
RowsOf(r) == req[r].resp.payload.rows

\* C11: the historical dates are fetched at the original coordinate only,
\* and a forecast-range date whose fetch at the original coordinate yields
\* null is fetched again at a nudged coordinate.
C11_ForecastRangeNudged ==
    \A r \in Slots :
        Answered(r) =>
            LET rq == req[r]
                nudged(c) == c.lat # rq.q.lat.val \/ c.lon # rq.q.lon.val
            IN  /\ \A j \in 1..Len(rq.calls) :
                       InSeq(rq.calls[j].date, rq.historicalDates) => ~nudged(rq.calls[j])
                /\ \A i \in 1..Len(rq.forecastDates) :
                       (rq.forecastDates[i] # rq.q.date /\ rq.forecastTemps[i] = null)
                       => \E j \in 1..Len(rq.calls) :
                              /\ rq.calls[j].date = rq.forecastDates[i]
                              /\ nudged(rq.calls[j])

\* C12: a successful response for (years, forecastDays) has
\* 3*years + (2*forecastDays + 1) rows.
C12_RowCount ==
    \A r \in Slots :
        Answered(r) =>
            Len(RowsOf(r)) = 3 * req[r].q.years + (2 * req[r].q.forecastDays + 1)

\* C13: rows of historical dates have kind historical, one row has kind
\* selected and carries the anchor date, every other forecast-range row has
\* kind forecast, and no forecast row carries the anchor date.
C13_RowKinds ==
    \A r \in Slots :
        Answered(r) =>
            LET rows == RowsOf(r)
                anchor == req[r].q.date
            IN  /\ \A i \in 1..Len(rows) :
                       InSeq(rows[i].date, req[r].historicalDates)
                       => rows[i].kind = "historical"
                /\ Cardinality({i \in 1..Len(rows) : rows[i].kind = "selected"}) = 1
                /\ \A i \in 1..Len(rows) :
                       rows[i].kind = "selected" => rows[i].date = anchor
                /\ \A i \in 1..Len(rows) :
                       (InSeq(rows[i].date, req[r].forecastDates) /\ rows[i].date # anchor)
                       => rows[i].kind = "forecast"
                /\ \A i \in 1..Len(rows) :
                       rows[i].kind = "forecast" => rows[i].date # anchor

\* C14: the historical rows come first, oldest date first and strictly
\* ascending, and the forecast-range rows follow in ascending date order.
C14_RowsAscending ==
    \A r \in Slots :
        Answered(r) =>
            LET rows == RowsOf(r)
                h == Len(req[r].historicalDates)
            IN  /\ \A i \in 1..Len(rows) : (rows[i].kind = "historical") <=> (i <= h)
                /\ \A i \in 1..(h - 1) : DateLess(rows[i].date, rows[i + 1].date)
                /\ \A i \in (h + 1)..(Len(rows) - 1) :
                       ~DateLess(rows[i + 1].date, rows[i].date)

\* The upstream answered like a stub with one value per date: the calls for
\* the anchor date agree and the selected date needed no nudge.
OneValuePerDate(rq) ==
    /\ Len(rq.sel.calls) = 1
    /\ \A i \in 1..Len(rq.forecastDates) :
           rq.forecastDates[i] = rq.q.date => rq.forecastTemps[i] = rq.sel.ret.v

\* C15: stats.mean is the mean of the non-null temperatures of the
\* historical dates and the forecast-range dates, one sample per date.
C15_MeanOverDates ==
    \A r \in Slots :
        (Answered(r) /\ OneValuePerDate(req[r])) =>
            LET samples == FilterNonNull(req[r].historicalTemps \o req[r].forecastTemps)
            IN  req[r].resp.payload.stats.mean
                    = RDiv(ReduceSum(samples), Num(Len(samples)))

\* C16: in every row of a successful response suit is null exactly when
\* tempC is null.
C16_SuitIffTemp ==
    \A r \in Slots :
        (req[r].pc = "done" /\ req[r].resp.status = 200) =>
            \A i \in 1..Len(RowsOf(r)) :
                (RowsOf(r)[i].suit = null) <=> (RowsOf(r)[i].tempC = null)

\* A response whose historical, selected and forecast rows include a row
\* without a temperature and rows with two different suits.
C16_Witness ==
    \E r \in Slots :
        /\ Answered(r)
        /\ \E i, j, k \in 1..Len(RowsOf(r)) :
              /\ RowsOf(r)[i].kind = "historical" /\ RowsOf(r)[i].tempC = null
              /\ RowsOf(r)[j].kind = "selected" /\ RowsOf(r)[j].suit # null
              /\ RowsOf(r)[k].kind = "forecast" /\ RowsOf(r)[k].suit # null
              /\ RowsOf(r)[j].suit # RowsOf(r)[k].suit

----------------------------------------------------------------------------
(* lib/dates: the generators called on their own *)

\* Anchor dates at month ends, year ends and around Feb 28/29 of leap and
\* non-leap years (2000 is a leap year, 2100 is not).
Anchors ==
    { <<2025, 11, 19>>, <<2025, 1, 1>>, <<2025, 1, 2>>, <<2024, 12, 31>>,
      <<2025, 12, 30>>, <<2024, 2, 28>>, <<2024, 2, 29>>, <<2024, 3, 1>>,
      <<2025, 2, 28>>, <<2025, 3, 1>>, <<2000, 2, 29>>, <<2100, 2, 28>>,
      <<2025, 4, 30>>, <<2025, 7, 31>> }

DatesInit ==
    /\ \E a \in Anchors, years \in 0..MaxYears, daysRange \in 0..MaxRadius :
          dt = [anchor |-> a, years |-> years, daysRange |-> daysRange,
                historical |-> null, forecast |-> null,
                didHistorical |-> FALSE, didForecast |-> FALSE]
    /\ fo = null /\ fr = null /\ nd = null /\ ui = null /\ grid = null
    /\ req = <<>> /\ load = 0 /\ stored = <<>>
    /\ m = Filled(0) /\ now = 0 /\ ticks = 0 /\ lastOp = "init"
    /\ lastSet = [k \in CacheKeys |-> NoSet] /\ got = NoGet

HistoricalCall ==
    /\ ~dt.didHistorical
    /\ dt' = [dt EXCEPT !.historical = getHistoricalDates(dt.anchor, dt.years),
                        !.didHistorical = TRUE]
    /\ UNCHANGED <<cacheVars, fetchVars, nd, pointVars, gridVars, uiVars>>

ForecastCall ==
    /\ ~dt.didForecast
    /\ dt' = [dt EXCEPT !.forecast = getForecastDates(dt.anchor, dt.daysRange),
                        !.didForecast = TRUE]
    /\ UNCHANGED <<cacheVars, fetchVars, nd, pointVars, gridVars, uiVars>>

DatesNext == HistoricalCall \/ ForecastCall

SpecDates == DatesInit /\ [][DatesNext]_vars

\* The proleptic Gregorian calendar by day numbers: the number of the day
\* <<y, mo, d>> counted from 1970-01-01, and the day with a given number.
DaysFromCivil(date) ==
    LET y == IF date[2] <= 2 THEN date[1] - 1 ELSE date[1]
        era == y \div 400
        yoe == y - era * 400
        mp == IF date[2] > 2 THEN date[2] - 3 ELSE date[2] + 9
        doy == (153 * mp + 2) \div 5 + date[3] - 1
        doe == yoe * 365 + yoe \div 4 - yoe \div 100 + doy
    IN  era * 146097 + doe - 719468

CivilFromDays(n) ==
    LET z == n + 719468
        era == z \div 146097
        doe == z - era * 146097
        yoe == (doe - doe \div 1460 + doe \div 36524 - doe \div 146096) \div 365
        doy == doe - (365 * yoe + yoe \div 4 - yoe \div 100)
        mp == (5 * doy + 2) \div 153
        d == doy - (153 * mp + 2) \div 5 + 1
        mo == IF mp < 10 THEN mp + 3 ELSE mp - 9
        y == yoe + era * 400
    IN  <<IF mo <= 2 THEN y + 1 ELSE y, mo, d>>

\* The calendar day n days from date.
DayFrom(date, n) == CivilFromDays(DaysFromCivil(date) + n)

\* C19: historicalDates(anchor, years) has 3*years elements: for yearOffset
\* from years down to 1 the day before the anchor, the anchor and the day
\* after, each with its own year reduced by yearOffset; the list ascends.
C19_HistoricalDates ==
    dt.didHistorical =>
        /\ Len(dt.historical) = 3 * dt.years
        /\ \A k \in 1..dt.years : \A j \in 1..3 :
              LET day == DayFrom(dt.anchor, j - 2)
                  yearOffset == dt.years + 1 - k
              IN  dt.historical[3 * (k - 1) + j] = <<day[1] - yearOffset, day[2], day[3]>>
        /\ \A i \in 1..(Len(dt.historical) - 1) :
              DateLess(dt.historical[i], dt.historical[i + 1])

\* The window of 2025-01-01 over the most years: it starts in the year
\* before each target year.
C19_Witness ==
    /\ dt.didHistorical
    /\ dt.anchor = <<2025, 1, 1>>
    /\ dt.years = MaxYears
    /\ dt.historical[1] = <<2024 - MaxYears, 12, 31>>
    /\ dt.historical[2] = <<2025 - MaxYears, 1, 1>>

\* C20: forecastDates(anchor, radius) has 2*radius + 1 elements, the anchor
\* at index radius, element i the calendar day i - radius days from the
\* anchor.
C20_ForecastDates ==
    dt.didForecast =>
        /\ Len(dt.forecast) = 2 * dt.daysRange + 1
        /\ dt.forecast[dt.daysRange + 1] = dt.anchor
        /\ \A i \in 1..Len(dt.forecast) :
              /\ dt.forecast[i] = DayFrom(dt.anchor, i - 1 - dt.daysRange)
              /\ WellFormedDate(dt.forecast[i])
        /\ \A i \in 1..(Len(dt.forecast) - 1) :
              DaysFromCivil(dt.forecast[i + 1]) = DaysFromCivil(dt.forecast[i]) + 1

\* The widest range around 2100-02-28 goes on to March 1 (2100 has no leap
\* day).
C20_Witness ==
    /\ dt.didForecast
    /\ dt.daysRange = MaxRadius
    /\ dt.anchor = <<2100, 2, 28>>
    /\ dt.forecast[dt.daysRange + 2] = <<2100, 3, 1>>

----------------------------------------------------------------------------
(* lib/sst: fetchSSTGrid.  A grid coordinate is in units of 0.00001 degree. *)
(* The upstream's answer to the batched call: a failure kind, or "json"     *)
(* with the results array, given by the hourly arrays it repeats (per) and  *)
(* how many entries it has more or fewer than coordinates asked (delta);    *)
(* "single" is a body without a results field.                              *)

GridResults(o, n) ==
    IF o.kind = "single" THEN <<o.per[1]>>
    ELSE [i \in 1..(IF n + o.delta < 0 THEN 0 ELSE n + o.delta) |->
             o.per[((i - 1) % Len(o.per)) + 1]]

NullPoints(coords) ==
    [i \in 1..Len(coords) |-> [lat |-> coords[i].lat, lon |-> coords[i].lon, temp |-> null]]

\* the body of the try block
gridBody(coords, o) ==
    IF o.kind \in {"net", "body", "shape"} THEN Threw
    ELSE IF o.kind = "status" THEN Returned(NullPoints(coords))
    ELSE LET results == GridResults(o, Len(coords))
         IN  IF Len(results) > Len(coords) THEN Threw
             ELSE Returned([i \in 1..Len(results) |->
                     LET validTemps == FilterNonNull(results[i])
                     IN  [lat |-> coords[i].lat, lon |-> coords[i].lon,
                          temp |-> IF Len(validTemps) > 0
                                   THEN RDiv(ReduceSum(validTemps), Num(Len(validTemps)))
                                   ELSE null]])

\* fetchSSTGrid whose catch rethrows
fetchSSTGrid_Rethrows(coords, o) ==
    IF Len(coords) = 0 THEN Returned(<<>>) ELSE gridBody(coords, o)

\* fetchSSTGrid(coords, dateISO) when the upstream does o
fetchSSTGrid(coords, o) ==
    IF Len(coords) = 0 THEN Returned(<<>>)
    ELSE IF gridBody(coords, o).threw THEN Returned(NullPoints(coords))
    ELSE gridBody(coords, o)

----------------------------------------------------------------------------
(* routes/api/sst/grid: GET handler *)

\* Math.round(x * 10000) / 10000
Round4(x) == ((x + 5) \div 10) * 10

\* The loop `for (v = lo; v <= hi; v = Round4(v + step))`.  After the first
\* increment v is a multiple of 0.0001, and from such a v the increment adds
\* Round4(step): the loop is unrolled as lo, then Round4(lo + step) plus
\* multiples of Round4(step).
\* It reaches an iteration that does not advance v:
LoopStalls(lo, hi, step) ==
    /\ lo <= hi
    /\ \/ Round4(lo + step) <= lo
       \/ Round4(lo + step) <= hi /\ Round4(step) <= 0

\* the number of iterations, and the values of v, when it ends
LoopCount(lo, hi, step) ==
    IF lo > hi THEN 0
    ELSE IF Round4(lo + step) > hi THEN 1
    ELSE 2 + (hi - Round4(lo + step)) \div Round4(step)

LoopValues(lo, hi, step) ==
    [k \in 1..LoopCount(lo, hi, step) |->
        IF k = 1 THEN lo ELSE Round4(lo + step) + (k - 2) * Round4(step)]

\* the nested loops never end
Diverges(b, step) ==
    \/ LoopStalls(b.minLat, b.maxLat, step)
    \/ b.minLat <= b.maxLat /\ LoopStalls(b.minLon, b.maxLon, step)

\* coords.length after the two loops
coordsLength(b, step) ==
    Len(LoopValues(b.minLat, b.maxLat, step)) * Len(LoopValues(b.minLon, b.maxLon, step))

\* coords: for each lat, for each lon
gridCoords(b, step) ==
    LET lats == LoopValues(b.minLat, b.maxLat, step)
        lons == LoopValues(b.minLon, b.maxLon, step)
    IN  [i \in 1..(Len(lats) * Len(lons)) |->
            [lat |-> lats[((i - 1) \div Len(lons)) + 1],
             lon |-> lons[((i - 1) % Len(lons)) + 1]]]

\* `grid:${bbox}:${date}:${stepNum}`
gridKey(q) == <<"grid", q.bbox, q.date, q.step>>

GridTooLarge == [status |-> 400, kind |-> "Grid too large", payload |-> null]

IdleGrid ==
    [pc |-> "idle", q |-> null, key |-> null, looked |-> FALSE, n |-> 0,
     coords |-> <<>>, called |-> FALSE, o |-> null, ret |-> null, resp |-> NoResponse]

\* from fetchSSTGrid returning to the response
gridFinish(mm, t, g, res) ==
    IF res.threw
    THEN [m |-> mm, g |-> [g EXCEPT !.pc = "done", !.ret = res, !.resp = UpstreamError]]
    ELSE LET payload == [points |-> res.v]
         IN  [m |-> set(mm, g.key, payload, GRID_TTL, t),
              g |-> [g EXCEPT !.pc = "done", !.ret = res, !.resp = Success(payload)]]

\* The handler from the request to its await or its early return.
gridArrive(mm, t, q) ==
    LET base == [IdleGrid EXCEPT !.q = q]
    IN  IF ~q.bbox.pat \/ q.date = NotADate
        THEN [m |-> mm, g |-> [base EXCEPT !.pc = "done",
                                   !.resp = ValidationError("Invalid parameters")]]
        ELSE
          LET cached == get(mm, gridKey(q), t)
              keyed == [base EXCEPT !.key = gridKey(q), !.looked = TRUE]
          IN  IF cached.some
              THEN [m |-> cached.m,
                    g |-> [keyed EXCEPT !.pc = "done", !.resp = Success(cached.r)]]
              ELSE IF Diverges(q.bbox, q.step)
              THEN [m |-> cached.m, g |-> [keyed EXCEPT !.pc = "loop"]]
              ELSE IF coordsLength(q.bbox, q.step) > GRID_CAP
              THEN [m |-> cached.m,
                    g |-> [keyed EXCEPT !.pc = "done", !.resp = GridTooLarge,
                                        !.n = coordsLength(q.bbox, q.step)]]
              ELSE
                LET coords == gridCoords(q.bbox, q.step)
                    going == [keyed EXCEPT !.n = Len(coords), !.coords = coords]
                IN  IF Len(coords) = 0
                    THEN gridFinish(cached.m, t, going, fetchSSTGrid(coords, [kind |-> "none"]))
                    ELSE [m |-> cached.m, g |-> [going EXCEPT !.pc = "await", !.called = TRUE]]

Box(minLon, minLat, maxLon, maxLat) ==
    [pat |-> TRUE, minLon |-> minLon, minLat |-> minLat, maxLon |-> maxLon, maxLat |-> maxLat]
BadBox == [pat |-> FALSE, minLon |-> 0, minLat |-> 0, maxLon |-> 0, maxLat |-> 0]
GridQuery(bbox, date, step) == [bbox |-> bbox, date |-> date, step |-> step]

\* Grids of 4, of exactly 1000, of 1001 and of 10201 coordinates, an empty
\* one (minLat above maxLat), a malformed bbox, and the grid of 4 asked for
\* with step=0, step=-0.5 and step=0.00001.
GridInputs ==
    { GridQuery(Box(0, 0, 50000, 50000), Anchor, 50000),
      GridQuery(Box(0, 0, 990000, 90000), Anchor, 10000),
      GridQuery(Box(0, 0, 1420000, 60000), Anchor, 10000),
      GridQuery(Box(0, 0, 5000000, 5000000), Anchor, 50000),
      GridQuery(Box(0, 50000, 50000, 0), Anchor, 50000),
      GridQuery(BadBox, Anchor, 50000),
      GridQuery(Box(0, 0, 50000, 50000), Anchor, 0),
      GridQuery(Box(0, 0, 50000, 50000), Anchor, -50000),
      GridQuery(Box(0, 0, 50000, 50000), Anchor, 1) }

GridOutcomes ==
    { [kind |-> "net"], [kind |-> "status"], [kind |-> "body"], [kind |-> "shape"],
      [kind |-> "json", per |-> <<<<Num(18)>>, <<null>>, <<>>, <<Num(18), Rat(53, 2)>>>>, delta |-> 0],
      [kind |-> "json", per |-> <<<<Num(18)>>>>, delta |-> -1],
      [kind |-> "json", per |-> <<<<Num(18)>>>>, delta |-> 1],
      [kind |-> "single", per |-> <<<<Num(18)>>>>, delta |-> 0] }

GridInit ==
    /\ grid = IdleGrid /\ load = 0
    /\ fo = null /\ fr = null /\ nd = null /\ ui = null /\ dt = null
    /\ req = <<>> /\ stored = <<>>
    /\ m = Filled(0) /\ now = 0 /\ ticks = 0 /\ lastOp = "init"
    /\ lastSet = [k \in CacheKeys |-> NoSet] /\ got = NoGet

\* A grid request arrives (none is in flight) and runs to its await or to
\* its response.
GridArrive ==
    /\ grid.pc \in {"idle", "done"}
    /\ load < MaxGridRequests
    /\ \E q \in GridInputs : \E a \in {gridArrive(m, now, q)} :
          /\ m' = a.m
          /\ grid' = a.g
    /\ load' = load + 1
    /\ lastOp' = "arrive"
    /\ UNCHANGED <<now, ticks, lastSet, got, fetchVars, nd, req, stored, dateVars, uiVars>>

\* The batched upstream call settles and the handler responds.
GridAnswer ==
    /\ grid.pc = "await"
    /\ \E o \in GridOutcomes :
       \E end \in {gridFinish(m, now, [grid EXCEPT !.o = o],
                              fetchSSTGrid(grid.coords, o))} :
          /\ m' = end.m
          /\ grid' = end.g
    /\ lastOp' = "answer"
    /\ UNCHANGED <<now, ticks, lastSet, got, fetchVars, nd, pointVars, dateVars, uiVars>>

\* The clock advances by the grid TTL, or by one millisecond more.
GridTick ==
    /\ ticks < MaxGridTicks
    /\ \E d \in {GRID_TTL * MS_PER_SEC, GRID_TTL * MS_PER_SEC + 1} : now' = now + d
    /\ ticks' = ticks + 1
    /\ lastOp' = "tick"
    /\ UNCHANGED <<m, lastSet, got, fetchVars, nd, pointVars, dateVars, gridVars, uiVars>>

GridNext == GridArrive \/ GridAnswer \/ GridTick

SpecGrid == GridInit /\ [][GridNext]_vars

----------------------------------------------------------------------------
(* GET /api/sst/grid: properties *)

\* The request's bounding box and step produce more than 1000 coordinates.
OverCap(q) ==
    /\ q.bbox.pat /\ q.date # NotADate
    /\ ~Diverges(q.bbox, q.step)
    /\ coordsLength(q.bbox, q.step) > 1000

\* C17: a grid request that produces more than 1000 coordinates gets a 400
\* before the cache is looked up and before an upstream call, nothing is
\* cached for it, and fetchGrid is only called with at most 1000
\* coordinates.
C17_CapBeforeLookup ==
    /\ (grid.pc # "idle" /\ OverCap(grid.q)) =>
          /\ grid.pc = "done"
          /\ grid.resp.status = 400
          /\ ~grid.looked
          /\ ~grid.called
          /\ gridKey(grid.q) \notin DOMAIN m
    /\ grid.called => grid.n <= 1000

\* C18: when the batched call fails as a whole (non-OK status, network
\* error, unparsable body), fetchSSTGrid does not throw and returns one
\* entry per input coordinate, with that coordinate and temp = null.
C18_BatchFailureAllNull ==
    (grid.pc = "done" /\ grid.called /\ grid.o.kind \in {"status", "net", "body"}) =>
        /\ ~grid.ret.threw
        /\ Len(grid.ret.v) = Len(grid.coords)
        /\ \A i \in 1..Len(grid.coords) :
              grid.ret.v[i] = [lat |-> grid.coords[i].lat, lon |-> grid.coords[i].lon,
                               temp |-> null]

\* The grid of exactly 1000 coordinates, the upstream unreachable: the
\* handler answers with 1000 points.
C18_Witness ==
    /\ grid.pc = "done" /\ grid.called
    /\ grid.o.kind = "net"
    /\ Len(grid.coords) = GRID_CAP
    /\ grid.resp.status = 200
    /\ Len(grid.resp.payload.points) = GRID_CAP
    /\ grid.resp.payload.points[GRID_CAP].temp = null

\* C21: for every anchor and every years >= 1, every element of
\* historicalDates(anchor, years) is a real calendar date.
C21_HistoricalDatesReal ==
    (dt.didHistorical /\ dt.years >= 1) =>
        \A i \in 1..Len(dt.historical) : WellFormedDate(dt.historical[i])

----------------------------------------------------------------------------
(* lib/suit: calls of suitForTemp.  dt holds the two temperatures passed,   *)
(* the preferences and the suits returned so far.  diveMinutes = 0 and      *)
(* runsCold = FALSE are also what an absent field amounts to (undefined is  *)
(* falsy in both tests of the bias).                                        *)

SuitTemps ==
    { Num(-2), Num(9), Num(10), Rat(15999, 1000), Num(16), Rat(33, 2),
      Num(20), Rat(22999, 1000), Num(23), Rat(49, 2), Rat(25999, 1000),
      Num(26), Rat(53, 2), Num(27), Rat(55, 2), Num(30) }

SuitPrefs == [runsCold : BOOLEAN, diveMinutes : {0, 45, 46, 60}]

SuitInit ==
    /\ \E t1 \in SuitTemps, t2 \in SuitTemps, p \in SuitPrefs :
          dt = [temps |-> <<t1, t2>>, prefs |-> p, suits |-> <<>>]
    /\ fo = null /\ fr = null /\ nd = null /\ ui = null /\ grid = null
    /\ req = <<>> /\ load = 0 /\ stored = <<>>
    /\ m = Filled(0) /\ now = 0 /\ ticks = 0 /\ lastOp = "init"
    /\ lastSet = [k \in CacheKeys |-> NoSet] /\ got = NoGet

SuitCall ==
    /\ Len(dt.suits) < Len(dt.temps)
    /\ dt' = [dt EXCEPT !.suits =
                 Append(@, suitForTemp(dt.temps[Len(dt.suits) + 1], dt.prefs))]
    /\ UNCHANGED <<cacheVars, fetchVars, nd, pointVars, gridVars, uiVars>>

SuitNext == SuitCall

SpecSuit == SuitInit /\ [][SuitNext]_vars

\* The bias the preferences give, and the type the thresholds give for an
\* adjusted temperature, as the claim states them.
SuitBias(p) ==
    RAdd(IF p.runsCold THEN Num(-1) ELSE Num(0),
         IF p.diveMinutes > 45 THEN Rat(-1, 2) ELSE Num(0))

SuitTier(adjusted) ==
    CHOOSE ty \in {"shorty", "full-3mm", "full-5mm", "full-7mm", "drysuit"} :
        /\ ty = "shorty" <=> RLeq(Num(26), adjusted)
        /\ ty = "full-3mm" <=> (RLeq(Num(23), adjusted) /\ RLess(adjusted, Num(26)))
        /\ ty = "full-5mm" <=> (RLeq(Num(20), adjusted) /\ RLess(adjusted, Num(23)))
        /\ ty = "full-7mm" <=> (RLeq(Num(16), adjusted) /\ RLess(adjusted, Num(20)))
        /\ ty = "drysuit" <=> RLess(adjusted, Num(16))

\* Warmth rank of a suit type: the warmer the water, the higher.
SuitRank(ty) ==
    CASE ty = "drysuit" -> 0 [] ty = "full-7mm" -> 1 [] ty = "full-5mm" -> 2
      [] ty = "full-3mm" -> 3 [] ty = "shorty" -> 4

\* C22: suitForTemp returns the type of the first threshold, top down with
\* inclusive lower bounds, that adjusted = tempC + bias reaches (26 shorty,
\* 23 full-3mm, 20 full-5mm, 16 full-7mm, otherwise drysuit), with bias =
\* (-1 if runsCold) + (-0.5 if diveMinutes > 45) and 0 without preferences;
\* the type is monotone in tempC; 26 gives shorty and 25.999 full-3mm.
C22_SuitThresholds ==
    /\ \A i \in 1..Len(dt.suits) :
          /\ dt.suits[i].type = SuitTier(RAdd(dt.temps[i], SuitBias(dt.prefs)))
          /\ (dt.prefs = NoPrefs /\ dt.temps[i] = Num(26))
                => dt.suits[i].type = "shorty"
          /\ (dt.prefs = NoPrefs /\ dt.temps[i] = Rat(25999, 1000))
                => dt.suits[i].type = "full-3mm"
    /\ (Len(dt.suits) = 2 /\ RLeq(dt.temps[1], dt.temps[2]))
          => SuitRank(dt.suits[1].type) <= SuitRank(dt.suits[2].type)

\* Both sides of the top threshold classified without preferences.
C22_Witness ==
    /\ dt.prefs = NoPrefs
    /\ dt.temps = <<Rat(25999, 1000), Num(26)>>
    /\ Len(dt.suits) = 2
    /\ dt.suits[1].type = "full-3mm"
    /\ dt.suits[2].type = "shorty"

----------------------------------------------------------------------------
(* routes/api/sst/point: calls of quantile.  dt holds the caller's array,   *)
(* the fraction and what the call returned.  The function sorts a copy      *)
(* ([...arr]), so the caller's array is the same after the call.            *)

SampleValues == {Num(10), Num(20), Rat(53, 2)}
Decades == <<Num(10), Num(20), Num(30), Num(40), Num(50)>>

QuantileArrays ==
    (SeqsUpTo(SampleValues, MaxArr) \ {<<>>})
        \cup {Decades, Reverse(Decades),
              <<Num(30), Num(50), Num(10), Num(40), Num(20)>>}

Fractions == {Num(0), Rat(1, 10), Rat(1, 2), Rat(9, 10), Num(1)}

QuantileInit ==
    /\ \E arr \in QuantileArrays, q \in Fractions :
          dt = [arr |-> arr, given |-> arr, q |-> q, called |-> FALSE, ret |-> null]
    /\ fo = null /\ fr = null /\ nd = null /\ ui = null /\ grid = null
    /\ req = <<>> /\ load = 0 /\ stored = <<>>
    /\ m = Filled(0) /\ now = 0 /\ ticks = 0 /\ lastOp = "init"
    /\ lastSet = [k \in CacheKeys |-> NoSet] /\ got = NoGet

QuantileCall ==
    /\ ~dt.called
    /\ dt' = [dt EXCEPT !.ret = quantile(dt.arr, dt.q), !.called = TRUE]
    /\ UNCHANGED <<cacheVars, fetchVars, nd, pointVars, gridVars, uiVars>>

QuantileNext == QuantileCall

SpecQuantile == QuantileInit /\ [][QuantileNext]_vars

\* The i-th smallest sample (i from 1), by counting: it depends on the
\* samples present and how often, not on their order.
Ranked(arr, i) ==
    LET vals == {arr[j] : j \in 1..Len(arr)}
        below(v) == Cardinality({j \in 1..Len(arr) : RLess(arr[j], v)})
        upto(v) == Cardinality({j \in 1..Len(arr) : RLeq(arr[j], v)})
    IN  CHOOSE v \in vals : below(v) < i /\ i <= upto(v)

\* C23: for a non-empty sample list and q in [0,1], quantile returns
\* sorted[base] + rest*(sorted[base+1] - sorted[base]) with pos = (n-1)*q,
\* base = floor(pos), rest = pos - base, or sorted[base] when base+1 >= n,
\* over the samples in ascending order whatever the input order; 14 at
\* q = 0.1 and 46 at q = 0.9 for 10..50; the input list is not modified.
C23_Quantile ==
    dt.called =>
        LET n == Len(dt.given)
            pos == RMul(Num(n - 1), dt.q)
            base == Floor(pos)
            rest == RSub(pos, Num(base))
            lo == Ranked(dt.given, base + 1)
        IN  /\ dt.ret = IF base + 1 >= n THEN lo
                        ELSE RAdd(lo, RMul(rest, RSub(Ranked(dt.given, base + 2), lo)))
            /\ (n = 5 /\ \A i \in 1..5 : Ranked(dt.given, i) = Decades[i])
                  => /\ dt.q = Rat(1, 10) => dt.ret = Num(14)
                     /\ dt.q = Rat(9, 10) => dt.ret = Num(46)
            /\ dt.arr = dt.given

\* The 0.9 quantile of the decades given out of order.
C23_Witness ==
    /\ dt.called
    /\ dt.given = <<Num(30), Num(50), Num(10), Num(40), Num(20)>>
    /\ dt.q = Rat(9, 10)
    /\ dt.ret = Num(46)
    /\ dt.arr = dt.given

----------------------------------------------------------------------------
----------------------------------------------------------------------------
\* C25: the rows of a point response (and so the stats) are the same for
\* every order in which the concurrent per-date fetches complete: the rows
\* stand in the order of the dates, and each row's tempC is the result of
\* the fetch issued for that row's date, never that of another date.
C25_RowsByDateNotArrival ==
    \A r \in Slots : Answered(r) =>
        LET rq == req[r]
            rows == RowsOf(r)
            H == Len(rq.historicalDates)
            F == Len(rq.forecastDates)
            firstFore == Len(rq.calls) - F
        IN  /\ Len(rows) = H + 1 + F
            /\ \A i \in 1..H :
                  /\ rq.calls[i].date = rq.historicalDates[i]
                  /\ rows[H + 1 - i].date = rq.historicalDates[i]
                  /\ rows[H + 1 - i].tempC = rq.historicalTemps[i]
            /\ rows[H + 1].date = rq.q.date
            /\ rows[H + 1].tempC = rq.sel.ret.v
            /\ \A i \in 1..F :
                  /\ rq.calls[firstFore + i].date = rq.forecastDates[i]
                  /\ rows[H + 1 + i].date = rq.forecastDates[i]
                  /\ rows[H + 1 + i].tempC = rq.forecastTemps[i]
            /\ rq.resp.payload.stats = computeStats(FilterNonNull(RowTemps(rows)))

\* A response whose fetches settled out of the order of issue, with
\* different results for the first and the last historical date.
C25_Witness ==
    /\ Answered(1)
    /\ req[1].outOfOrder
    /\ Len(req[1].historicalDates) = 3
    /\ req[1].historicalTemps[1] = Num(18)
    /\ req[1].historicalTemps[3] = null
    /\ RowsOf(1)[1].tempC = null
    /\ RowsOf(1)[3].tempC = Num(18)

----------------------------------------------------------------------------
\* C26: for every grid request that passes parsing (any bbox of four
\* numbers, any step string, 0 and negative included) the coordinate loop
\* terminates: the handler is past it, awaiting the upstream or answered.
C26_GridLoopTerminates ==
    (grid.pc # "idle" /\ grid.q.bbox.pat /\ grid.q.date # NotADate)
        => grid.pc \in {"await", "done"}

----------------------------------------------------------------------------
\* C27: for a non-empty coordinate list and any upstream response,
\* fetchSSTGrid returns exactly one entry per input coordinate, in input
\* order, each with the lat/lon of its coordinate, also when the upstream
\* returns fewer or more results than coordinates.
C27_OnePointPerCoordinate ==
    (grid.pc = "done" /\ grid.called) =>
        /\ ~grid.ret.threw
        /\ Len(grid.ret.v) = Len(grid.coords)
        /\ \A i \in 1..Len(grid.coords) :
              /\ grid.ret.v[i].lat = grid.coords[i].lat
              /\ grid.ret.v[i].lon = grid.coords[i].lon

\* C28: a grid payload that comes from a failed batch call (non-OK status
\* or failed call, every temp null) is not written to the cache.
C28_FailedBatchNotCached ==
    (grid.pc = "done" /\ grid.called /\ grid.o.kind \in {"status", "net", "body"})
        => grid.key \notin DOMAIN m

----------------------------------------------------------------------------
\* C29: in every successful point response, computed or served from the
\* cache, payload.location is the lat/lon of the request being answered,
\* also when the entry was stored by an earlier request whose different
\* coordinate has the same 3-decimal cache key.
C29_LocationIsRequested ==
    \A r \in Slots :
        (req[r].pc = "done" /\ req[r].resp.status = 200) =>
            req[r].resp.payload.location =
                [lat |-> req[r].q.lat.val, lon |-> req[r].q.lon.val]

----------------------------------------------------------------------------
(* routes/map: MapPage.  ui holds the component's state (the useState      *)
(* values) and, in order of initiation, the point lookups handleMapClick    *)
(* has started: the url's coordinate and date, whether the fetch is still   *)
(* awaited, and how it settled.                                             *)

UiLocations == {[lat |-> 400000, lon |-> -700000], [lat |-> 100000, lon |-> 200000]}
UiDateTimes == {<<2024, 3, 1>>, <<2024, 3, 2>>}

\* How a lookup's fetch settles: a 200 with the payload for the url, a
\* non-OK response with an error field, one without, a rejected fetch.
\* A message is <<text>>, null where there is none.
UiOutcomes ==
    { [kind |-> "ok", error |-> null],
      [kind |-> "status", error |-> <<"No ocean temperature data available">>],
      [kind |-> "status", error |-> null],
      [kind |-> "net", error |-> <<"fetch failed">>] }

\* The payload the server sends for a lookup's url.
DataOf(lk) == [location |-> [lat |-> lk.lat, lon |-> lk.lon], date |-> lk.date]

\* The message the catch block shows.
ErrorOf(o) ==
    IF o.kind = "status" /\ o.error = null THEN <<"Failed to fetch point data">>
    ELSE o.error

MapInit ==
    /\ \E d \in UiDateTimes :
          ui = [selectedDateTime |-> d, selectedPoint |-> null,
                isLoadingPoint |-> FALSE, pointError |-> null,
                selectedLocation |-> null, isDrawerOpen |-> FALSE,
                lookups |-> <<>>]
    /\ fo = null /\ fr = null /\ nd = null /\ dt = null /\ grid = null
    /\ req = <<>> /\ load = 0 /\ stored = <<>>
    /\ m = Filled(0) /\ now = 0 /\ ticks = 0 /\ lastOp = "init"
    /\ lastSet = [k \in CacheKeys |-> NoSet] /\ got = NoGet

\* handleMapClick from its call to `await fetch(url)`
handleMapClick(u, loc, selectedDateTime) ==
    [u EXCEPT !.isLoadingPoint = TRUE,
              !.pointError = null,
              !.selectedLocation = loc,
              !.lookups = Append(@, [lat |-> loc.lat, lon |-> loc.lon,
                                     date |-> selectedDateTime,
                                     pc |-> "fetch", o |-> null])]

\* handleMapClick from the fetch of lookup i settling to the end of finally
settleLookup(u, i, o) ==
    LET shown == IF o.kind = "ok"
                 THEN [u EXCEPT !.selectedPoint = DataOf(u.lookups[i]),
                                !.pointError = null,
                                !.isDrawerOpen = TRUE]
                 ELSE [u EXCEPT !.pointError = ErrorOf(o),
                                !.selectedPoint = null]
    IN  [shown EXCEPT !.isLoadingPoint = FALSE,
                      !.lookups[i] = [@ EXCEPT !.pc = "settled", !.o = o]]

\* The user clicks the map (or picks a search result).
MapClick ==
    /\ Len(ui.lookups) < MaxLookups
    /\ \E loc \in UiLocations : ui' = handleMapClick(ui, loc, ui.selectedDateTime)
    /\ UNCHANGED <<cacheVars, fetchVars, nd, pointVars, dateVars, gridVars>>

\* The user picks another date: the effect on selectedDateTime refetches
\* for the selected location, if there is one.
DateTimeChange ==
    /\ Len(ui.lookups) < MaxLookups
    /\ \E d \in UiDateTimes \ {ui.selectedDateTime} :
          LET changed == [ui EXCEPT !.selectedDateTime = d]
          IN  ui' = IF ui.selectedLocation # null
                    THEN handleMapClick(changed, ui.selectedLocation, d)
                    ELSE changed
    /\ UNCHANGED <<cacheVars, fetchVars, nd, pointVars, dateVars, gridVars>>

\* The fetch of one of the lookups in flight settles.
MapResponse ==
    /\ \E i \in 1..Len(ui.lookups), o \in UiOutcomes :
          /\ ui.lookups[i].pc = "fetch"
          /\ ui' = settleLookup(ui, i, o)
    /\ UNCHANGED <<cacheVars, fetchVars, nd, pointVars, dateVars, gridVars>>

MapNext == MapClick \/ DateTimeChange \/ MapResponse

SpecMap == MapInit /\ [][MapNext]_vars

\* C30: when point lookups overlap, for every order in which they settle,
\* once all have settled the page shows the data or the error of the lookup
\* started last, and the loading indicator stays on until that lookup has
\* settled.
C30_LatestLookupShown ==
    Len(ui.lookups) >= 2 =>
        LET last == ui.lookups[Len(ui.lookups)]
        IN  /\ last.pc = "fetch" => ui.isLoadingPoint
            /\ (\A i \in 1..Len(ui.lookups) : ui.lookups[i].pc = "settled") =>
                  IF last.o.kind = "ok"
                  THEN ui.selectedPoint = DataOf(last) /\ ui.pointError = null
                  ELSE ui.selectedPoint = null /\ ui.pointError = ErrorOf(last.o)

====
